---- MODULE Spec2Model ----
(***************************************************************************)
(* Library management business logic (library_service.py): catalog         *)
(* insertion, borrow / return transitions, late-fee computation and the    *)
(* patron status report, over the storage gateway (database module).       *)
(*                                                                         *)
(* Strings are sequences of one-character strings, so that len(), strip()  *)
(* and isdigit() are computed as Python computes them.  Money is counted   *)
(* in cents.  Time is counted in hours.                                    *)
(***************************************************************************)
EXTENDS Integers, Sequences, FiniteSets, Bags, TLC

VARIABLES
    books,            \* the books table: row i is the book with id i
    borrow_records,   \* the borrow_records table: a bag of rows
    last,             \* the last call: operation, arguments, result, storage calls
    fee_input,        \* Fee Calculator input: the open record's due date and "now"
    fee_result        \* Fee Calculator output for fee_input

vars == <<books, borrow_records, last, fee_input, fee_result>>

-----------------------------------------------------------------------------
(* Bounds of the model *)

MaxRecords == 2        \* rows of borrow_records explored by Spec / SpecReliable
MaxLoans == 6          \* rows of borrow_records explored by SpecLimit
MaxOverdueDays == 101  \* the Fee Calculator is explored up to this many days late

(* Program constants *)

TITLE_MAX == 200
AUTHOR_MAX == 100
ISBN_LEN == 13
PATRON_ID_LEN == 6
FIRST_WEEK_DAYS == 7
FIRST_WEEK_RATE == 50
LATER_RATE == 100
FEE_CAP == 1500
HOURS_PER_DAY == 24

-----------------------------------------------------------------------------
(* Python string built-ins, on sequences of characters *)

Digits == {"0", "1", "2", "3", "4", "5", "6", "7", "8", "9"}
Whitespace == {" "}

isdigit(s) == Len(s) > 0 /\ \A i \in 1..Len(s) : s[i] \in Digits

RECURSIVE lstrip(_)
lstrip(s) == IF s # <<>> /\ Head(s) \in Whitespace THEN lstrip(Tail(s)) ELSE s

RECURSIVE rstrip(_)
rstrip(s) ==
    IF s # <<>> /\ s[Len(s)] \in Whitespace
    THEN rstrip(SubSeq(s, 1, Len(s) - 1))
    ELSE s

strip(s) == rstrip(lstrip(s))

Rep(c, n) == [i \in 1..n |-> c]

-----------------------------------------------------------------------------
(* Messages returned by the operations *)

MsgTitleRequired == "Title is required."
MsgTitleLong == "Title must be less than 200 characters."
MsgAuthorRequired == "Author is required."
MsgAuthorLong == "Author must be less than 100 characters."
MsgIsbnLen == "ISBN must be exactly 13 digits."
MsgIsbnDigits == "ISBN must be exactly 13 digits and contain only numbers."
MsgCopies == "Total copies must be a positive integer."
MsgExists == "A book with this ISBN already exists."
MsgAdded == "has been successfully added to the catalog."
MsgAddDbError == "Database error occurred while adding the book."
MsgInvalidPatron == "Invalid patron ID. Must be exactly 6 digits."
MsgNotFound == "Book not found."
MsgNotAvailable == "This book is currently not available."
MsgLimit == "You have reached the maximum borrowing limit of 5 books."
MsgBorrowDbError == "Database error occurred while creating borrow record."
MsgAvailDbError == "Database error occurred while updating book availability."
MsgBorrowed == "Successfully borrowed"
MsgNotBorrowed == "This book was not borrowed by this patron or has already been returned."
MsgNoRecord == "There is no record of this borrowed book from this patron ID"
MsgReturned == "has been returned successfully."
StatusInvalid == "Invalid ID"
StatusActive == "Active"
StatusAtLimit == "At borrowing limit"

-----------------------------------------------------------------------------
(* Storage gateway (database module) *)

Row(patron_id, book_id, returned) ==
    [patron_id |-> patron_id, book_id |-> book_id, returned |-> returned]

OpenRow(patron_id, book_id) == Row(patron_id, book_id, FALSE)

\* SELECT ... WHERE id = ? : the row as a sequence of 0 or 1 books
get_book_by_id(book_id) ==
    IF book_id \in 1..Len(books) THEN <<books[book_id]>> ELSE <<>>

\* SELECT ... WHERE isbn = ? : the ids of the rows with that isbn
get_book_by_isbn(isbn) == {i \in 1..Len(books) : books[i].isbn = isbn}

\* INSERT INTO books
insert_book(title, author, isbn, total_copies, available_copies) ==
    Append(books, [title |-> title, author |-> author, isbn |-> isbn,
                   total_copies |-> total_copies,
                   available_copies |-> available_copies])

\* UPDATE books SET available_copies = available_copies + delta WHERE id = ?
update_book_availability(book_id, delta) ==
    [books EXCEPT ![book_id].available_copies = @ + delta]

\* INSERT INTO borrow_records (return_date unset)
insert_borrow_record(patron_id, book_id) ==
    borrow_records (+) SetToBag({OpenRow(patron_id, book_id)})

\* number of open rows of the pair
open_count(patron_id, book_id) ==
    CopiesIn(OpenRow(patron_id, book_id), borrow_records)

\* sets return_date on n open rows of the pair
update_borrow_record_return_date(patron_id, book_id, n) ==
    IF n = 0 THEN borrow_records
    ELSE (borrow_records (-) [r \in {OpenRow(patron_id, book_id)} |-> n])
            (+) [r \in {Row(patron_id, book_id, TRUE)} |-> n]

\* how many open rows one call can close: the open row of the pair; when
\* the pair has several open rows, one of them or all of them; none when
\* it has no open row
closable(patron_id, book_id) ==
    IF open_count(patron_id, book_id) = 0
    THEN {0}
    ELSE {1, open_count(patron_id, book_id)}

\* SELECT COUNT(*) ... WHERE patron_id = ? AND return_date IS NULL
get_patron_borrow_count(patron_id) ==
    LET open == {r \in BagToSet(borrow_records) :
                    r.patron_id = patron_id /\ ~r.returned}
        RECURSIVE sum(_)
        sum(S) == IF S = {} THEN 0
                  ELSE LET r == CHOOSE x \in S : TRUE
                       IN CopiesIn(r, borrow_records) + sum(S \ {r})
    IN sum(open)

-----------------------------------------------------------------------------
(* The result of a call: what it returned and the storage calls it issued, *)
(* each with the outcome the storage reported.  value is the late fee in   *)
(* cents (return) or currently_borrowed (report).                          *)

Call(name, ok) == [call |-> name, ok |-> ok]
Read(name) == Call(name, TRUE)

Result(op, args, ok, msg, calls, value) ==
    [op |-> op, args |-> args, ok |-> ok, msg |-> msg,
     calls |-> calls, value |-> value]

NoCall == Result("none", <<>>, FALSE, "", <<>>, 0)

NoFeeInput == [found |-> FALSE, due_date |-> 0, current_date |-> 0]
NoFeeResult == [fee_amount |-> 0, days_overdue |-> 0, status |-> "none"]

-----------------------------------------------------------------------------
(* add_book_to_catalog *)

\* the input validation: the message of the first failing check, "" if none
AddValidationError(title, author, isbn, total_copies) ==
    IF title = <<>> \/ strip(title) = <<>> THEN MsgTitleRequired
    ELSE IF Len(strip(title)) > TITLE_MAX THEN MsgTitleLong
    ELSE IF author = <<>> \/ strip(author) = <<>> THEN MsgAuthorRequired
    ELSE IF Len(strip(author)) > AUTHOR_MAX THEN MsgAuthorLong
    ELSE IF Len(isbn) # ISBN_LEN THEN MsgIsbnLen
    ELSE IF ~isdigit(isbn) THEN MsgIsbnDigits
    ELSE IF total_copies <= 0 THEN MsgCopies
    ELSE ""

\* the duplicate ISBN check
\* sensitivity variant: the duplicate check never finds the isbn
IsbnExistsMissed(isbn) == FALSE
IsbnExists(isbn) == get_book_by_isbn(isbn) # {}

add_book_to_catalog(title, author, isbn, total_copies, oks) ==
    LET args == <<title, author, isbn, total_copies>>
        err == AddValidationError(title, author, isbn, total_copies)
        Fail(msg, calls) ==
            /\ last' = Result("add_book", args, FALSE, msg, calls, 0)
            /\ UNCHANGED <<books, borrow_records>>
    IN  /\ UNCHANGED <<fee_input, fee_result>>
        /\ IF err # "" THEN Fail(err, <<>>)
           ELSE IF IsbnExists(isbn)
                THEN Fail(MsgExists, <<Read("get_book_by_isbn")>>)
           ELSE \E insert_ok \in oks :
                IF ~insert_ok
                THEN Fail(MsgAddDbError, <<Read("get_book_by_isbn"),
                                           Call("insert_book", FALSE)>>)
                ELSE /\ books' = insert_book(strip(title), strip(author), isbn,
                                             total_copies, total_copies)
                     /\ UNCHANGED borrow_records
                     /\ last' = Result("add_book", args, TRUE, MsgAdded,
                                       <<Read("get_book_by_isbn"),
                                         Call("insert_book", TRUE)>>, 0)

-----------------------------------------------------------------------------
(* borrow_book_by_patron *)

MAX_BORROW == 5

\* the patron id check shared by borrow, return and report
\* sensitivity variant: the length of the id is not checked
ValidPatronIdAnyLength(patron_id) == patron_id # <<>> /\ isdigit(patron_id)
ValidPatronId(patron_id) ==
    ~(patron_id = <<>> \/ ~isdigit(patron_id) \/ Len(patron_id) # PATRON_ID_LEN)

\* sensitivity variant: < in place of <=
NoCopyAvailableBelowZero(book) == book.available_copies < 0
NoCopyAvailable(book) == book.available_copies <= 0

\* sensitivity variant: > in place of >=
AtBorrowLimitOneLate(current_borrowed) == current_borrowed > MAX_BORROW
AtBorrowLimit(current_borrowed) == current_borrowed >= MAX_BORROW

borrow_book_by_patron(patron_id, book_id, oks) ==
    LET args == <<patron_id, book_id>>
        book == get_book_by_id(book_id)
        c1 == <<Read("get_book_by_id")>>
        c2 == Append(c1, Read("get_patron_borrow_count"))
        c3(ok) == Append(c2, Call("insert_borrow_record", ok))
        c4(ok) == Append(c3(TRUE), Call("update_book_availability", ok))
        Fail(msg, calls) ==
            /\ last' = Result("borrow", args, FALSE, msg, calls, 0)
            /\ UNCHANGED <<books, borrow_records>>
    IN  /\ UNCHANGED <<fee_input, fee_result>>
        /\ IF ~ValidPatronId(patron_id) THEN Fail(MsgInvalidPatron, <<>>)
           ELSE IF book = <<>> THEN Fail(MsgNotFound, c1)
           ELSE IF NoCopyAvailable(book[1]) THEN Fail(MsgNotAvailable, c1)
           ELSE IF AtBorrowLimit(get_patron_borrow_count(patron_id))
                THEN Fail(MsgLimit, c2)
           ELSE \E insert_ok \in oks :
                IF ~insert_ok THEN Fail(MsgBorrowDbError, c3(FALSE))
                ELSE /\ borrow_records' = insert_borrow_record(patron_id, book_id)
                     /\ \E update_ok \in oks :
                            IF update_ok
                            THEN /\ books' = update_book_availability(book_id, -1)
                                 /\ last' = Result("borrow", args, TRUE,
                                                   MsgBorrowed, c4(TRUE), 0)
                            ELSE /\ UNCHANGED books
                                 /\ last' = Result("borrow", args, FALSE,
                                                   MsgAvailDbError, c4(FALSE), 0)

-----------------------------------------------------------------------------
(* calculate_late_fee_for_book: found is whether the pair has an open row, *)
(* due_date that row's due date and current_date datetime.now(), in hours  *)

\* timedelta.days: whole days, rounded toward minus infinity
days_between(current_date, due_date) ==
    (current_date - due_date) \div HOURS_PER_DAY

Min(a, b) == IF a <= b THEN a ELSE b
Max(a, b) == IF a >= b THEN a ELSE b

\* sensitivity variant: the flat tariff of the status report (line 247)
late_fee_flat(days_overdue) == Min(days_overdue * FIRST_WEEK_RATE, FEE_CAP)
late_fee(days_overdue) ==
    Min(Min(days_overdue, FIRST_WEEK_DAYS) * FIRST_WEEK_RATE
            + Max(days_overdue - FIRST_WEEK_DAYS, 0) * LATER_RATE,
        FEE_CAP)

calculate_late_fee_for_book(found, due_date, current_date) ==
    LET days_overdue == days_between(current_date, due_date)
    IN  IF ~found
        THEN [fee_amount |-> 0, days_overdue |-> 0,
              status |-> "Book cannot be found"]
        ELSE IF days_overdue <= 0
        THEN [fee_amount |-> 0, days_overdue |-> 0,
              status |-> "Returned on time"]
        ELSE [fee_amount |-> late_fee(days_overdue),
              days_overdue |-> days_overdue,
              status |-> "Late fee calculated successfully"]

-----------------------------------------------------------------------------
(* return_book_by_patron: lateness is datetime.now() minus the open row's  *)
(* due date, in hours, n how many open rows the storage closes             *)

Lateness == {-1, 9 * HOURS_PER_DAY}

\* sensitivity variant: the open record is not looked up
HasOpenRecordAssumed(patron_id, book_id) == TRUE
HasOpenRecord(patron_id, book_id) == open_count(patron_id, book_id) > 0

return_book_by_patron(patron_id, book_id, oks) ==
    LET args == <<patron_id, book_id>>
        book == get_book_by_id(book_id)
        c1 == <<Read("get_book_by_id")>>
        c2 == Append(c1, Read("select_open_record"))
        c3 == Append(c2, Read("select_due_date"))
        c4(ok) == Append(c3, Call("update_borrow_record_return_date", ok))
        c5(ok) == Append(c4(TRUE), Call("update_book_availability", ok))
        fee(lateness) == calculate_late_fee_for_book(TRUE, 0, lateness)
        Fail(msg, calls) ==
            /\ last' = Result("return", args, FALSE, msg, calls, 0)
            /\ UNCHANGED <<books, borrow_records>>
    IN  /\ UNCHANGED <<fee_input, fee_result>>
        /\ IF ~ValidPatronId(patron_id) THEN Fail(MsgInvalidPatron, <<>>)
           ELSE IF book = <<>> THEN Fail(MsgNotFound, c1)
           ELSE IF ~HasOpenRecord(patron_id, book_id) THEN Fail(MsgNotBorrowed, c2)
           ELSE \E lateness \in Lateness, close_ok \in oks :
                IF ~close_ok THEN Fail(MsgNoRecord, c4(FALSE))
                ELSE /\ \E n \in closable(patron_id, book_id) :
                            borrow_records' = update_borrow_record_return_date(
                                                  patron_id, book_id, n)
                     /\ \E update_ok \in oks :
                            /\ books' = IF update_ok
                                        THEN update_book_availability(book_id, 1)
                                        ELSE books
                            /\ last' = Result("return", args, TRUE, MsgReturned,
                                              c5(update_ok),
                                              fee(lateness).fee_amount)

-----------------------------------------------------------------------------
(* get_patron_status_report: the counts and the status of the report; the  *)
(* per-loan dates, fees and history rows of the report are not modelled    *)

get_patron_status_report(patron_id) ==
    LET n == get_patron_borrow_count(patron_id)
    IN  /\ UNCHANGED <<books, borrow_records, fee_input, fee_result>>
        /\ IF ~ValidPatronId(patron_id)
           THEN last' = Result("report", <<patron_id>>, FALSE, StatusInvalid,
                               <<>>, 0)
           ELSE last' = Result("report", <<patron_id>>, TRUE,
                               IF n < MAX_BORROW THEN StatusActive
                                                 ELSE StatusAtLimit,
                               <<Read("get_patron_borrowed_books"),
                                 Read("select_history")>>,
                               n)

-----------------------------------------------------------------------------
(* Inputs *)

Patron1 == <<"1", "2", "3", "4", "5", "6">>
Patron2 == <<"6", "5", "4", "3", "2", "1">>
ValidPatrons == {Patron1, Patron2}
MalformedPatrons ==
    {<<>>, <<"1", "2", "3", "4", "5">>, <<"a", "b", "c", "x", "y", "z">>}
PatronInputs == ValidPatrons \cup MalformedPatrons

Isbn1 == <<"9", "7", "8", "0", "1", "0", "1", "0", "1", "0", "1", "0", "1">>
Isbn2 == <<"1", "2", "3", "4", "5", "6", "7", "8", "9", "0", "1", "2", "3">>
IsbnShort == <<"1", "2", "3", "4">>
IsbnAlpha == <<"9", "7", "8", "0", "1", "0", "1", "0", "1", "0", "1", "0", "X">>

Title1 == <<" ", "T", " ">>
Author1 == <<"A">>

AddArgs(title, author, isbn, total_copies) ==
    [title |-> title, author |-> author, isbn |-> isbn,
     total_copies |-> total_copies]

WellFormedAdds ==
    {AddArgs(Title1, Author1, Isbn1, 2),
     AddArgs(Title1, Author1, Isbn2, 1)}

MalformedAdds ==
    {AddArgs(<<>>, Author1, Isbn1, 1),
     AddArgs(<<" ", " ">>, Author1, Isbn1, 1),
     AddArgs(Rep("t", TITLE_MAX + 1), Author1, Isbn1, 1),
     AddArgs(Title1, <<>>, Isbn1, 1),
     AddArgs(Title1, <<" ">>, Isbn1, 1),
     AddArgs(Title1, Rep("a", AUTHOR_MAX + 1), Isbn1, 1),
     AddArgs(Title1, Author1, IsbnShort, 1),
     AddArgs(Title1, Author1, IsbnAlpha, 1),
     AddArgs(Title1, Author1, Isbn1, 0)}

AddInputs == WellFormedAdds \cup MalformedAdds

LimitAdds == {AddArgs(Title1, Author1, Isbn1, 6)}

LimitBookIds == 1..2

BookIds == 1..3

-----------------------------------------------------------------------------
(* Steps: one call of an operation, with its inputs and the outcome of     *)
(* each storage write                                                      *)

AddBookStep(inputs, oks) ==
    \E a \in inputs :
        add_book_to_catalog(a.title, a.author, a.isbn, a.total_copies, oks)

BorrowStep(patrons, ids, oks, cap) ==
    /\ \E patron_id \in patrons, book_id \in ids :
            borrow_book_by_patron(patron_id, book_id, oks)
    /\ BagCardinality(borrow_records') <= cap

ReturnStep(patrons, ids, oks) ==
    \E patron_id \in patrons, book_id \in ids :
        return_book_by_patron(patron_id, book_id, oks)

ReportStep(patrons) ==
    \E patron_id \in patrons : get_patron_status_report(patron_id)

-----------------------------------------------------------------------------
(* Spec: every input, storage writes may fail *)

Init ==
    /\ books = <<>>
    /\ borrow_records = EmptyBag
    /\ last = NoCall
    /\ fee_input = NoFeeInput
    /\ fee_result = NoFeeResult

AddBook == AddBookStep(AddInputs, BOOLEAN)
Borrow == BorrowStep(PatronInputs, BookIds, BOOLEAN, MaxRecords)
Return == ReturnStep(PatronInputs, BookIds, BOOLEAN)
Report == ReportStep(PatronInputs)

Next == AddBook \/ Borrow \/ Return \/ Report

Spec == Init /\ [][Next]_vars

(* SpecReliable: every input, no storage call fails *)

AddBookReliable == AddBookStep(AddInputs, {TRUE})
BorrowReliable == BorrowStep(PatronInputs, BookIds, {TRUE}, MaxRecords)
ReturnReliable == ReturnStep(PatronInputs, BookIds, {TRUE})
ReportReliable == ReportStep(PatronInputs)

NextReliable ==
    AddBookReliable \/ BorrowReliable \/ ReturnReliable \/ ReportReliable

SpecReliable == Init /\ [][NextReliable]_vars

(* SpecLimit: well-formed patrons and a six-copy book, up to MaxLoans rows *)

AddBookLimit == AddBookStep(LimitAdds, BOOLEAN)
BorrowLimit == BorrowStep(ValidPatrons, LimitBookIds, BOOLEAN, MaxLoans)
ReturnLimit == ReturnStep(ValidPatrons, LimitBookIds, BOOLEAN)

NextLimit == AddBookLimit \/ BorrowLimit \/ ReturnLimit

SpecLimit == Init /\ [][NextLimit]_vars

(* SpecFee: the Fee Calculator on every due date and "now" of the range *)

InitFee ==
    /\ books = <<>>
    /\ borrow_records = EmptyBag
    /\ last = NoCall
    /\ fee_input \in [found : BOOLEAN, due_date : {0, 7},
                      current_date : (-2 * HOURS_PER_DAY)
                                       ..(MaxOverdueDays * HOURS_PER_DAY)]
    /\ fee_result = NoFeeResult

ComputeFee ==
    /\ fee_result = NoFeeResult
    /\ fee_result' = calculate_late_fee_for_book(
                         fee_input.found, fee_input.due_date,
                         fee_input.current_date)
    /\ UNCHANGED <<books, borrow_records, last, fee_input>>

NextFee == ComputeFee

SpecFee == InitFee /\ [][NextFee]_vars

-----------------------------------------------------------------------------
(* Vocabulary of the properties, stated on the tables and on the call's    *)
(* arguments                                                               *)

\* open rows (return_date unset) of a patron and book
Loans(p, b) ==
    CopiesIn([patron_id |-> p, book_id |-> b, returned |-> FALSE],
             borrow_records)

\* closed rows of a patron and book
Returns(p, b) ==
    CopiesIn([patron_id |-> p, book_id |-> b, returned |-> TRUE],
             borrow_records)

RECURSIVE SumOver(_, _)
SumOver(f, S) ==
    IF S = {} THEN 0
    ELSE LET x == CHOOSE y \in S : TRUE IN f[x] + SumOver(f, S \ {x})

PatronLoans(p) == SumOver([b \in BookIds |-> Loans(p, b)], BookIds)
BookLoans(b) == SumOver([p \in ValidPatrons |-> Loans(p, b)], ValidPatrons)

Known(b) == b \in 1..Len(books)

Blank(s) == \A i \in 1..Len(s) : s[i] = " "
TrimmedLen(s) ==
    IF Blank(s) THEN 0
    ELSE LET first == CHOOSE i \in 1..Len(s) :
                          s[i] # " " /\ \A j \in 1..(i - 1) : s[j] = " "
             final == CHOOSE i \in 1..Len(s) :
                          s[i] # " " /\ \A j \in (i + 1)..Len(s) : s[j] = " "
         IN final - first + 1
AllDigits(s, n) ==
    /\ Len(s) = n
    /\ \A i \in 1..Len(s) :
          s[i] \in {"0", "1", "2", "3", "4", "5", "6", "7", "8", "9"}

MalformedAdd(a) ==
    \/ Blank(a[1]) \/ TrimmedLen(a[1]) > 200
    \/ Blank(a[2]) \/ TrimmedLen(a[2]) > 100
    \/ ~AllDigits(a[3], 13)

MalformedPatron(p) == ~AllDigits(p, 6)

\* the step is a call that failed and left both tables as they were
Refused == ~last'.ok /\ UNCHANGED <<books, borrow_records>>

-----------------------------------------------------------------------------
(* C1. A successful addBook leaves the new book with available_copies =    *)
(* total_copies, and in every reachable state every book has               *)
(* 0 <= available_copies <= total_copies.                                  *)
C1_AvailableWithinTotal ==
    /\ \A i \in 1..Len(books) :
          /\ 0 <= books[i].available_copies
          /\ books[i].available_copies <= books[i].total_copies
    /\ (last.op = "add_book" /\ last.ok) =>
          /\ books[Len(books)].total_copies = last.args[4]
          /\ books[Len(books)].available_copies = last.args[4]

-----------------------------------------------------------------------------
(* C2 as stated. Every patron has at most 5 open borrow records, and a     *)
(* borrow by a patron who already has 5 open records fails with the limit  *)
(* message, inserts no record and leaves available_copies unchanged.       *)
C2_LimitMessageAlways ==
    /\ [](\A p \in ValidPatrons : PatronLoans(p) <= 5)
    /\ [][\A p \in ValidPatrons :
            (PatronLoans(p) >= 5 /\ last'.op = "borrow" /\ last'.args[1] = p)
                => (Refused /\ last'.msg = MsgLimit)]_vars

(* C2 as amended. Every patron has at most 5 open borrow records, and a    *)
(* borrow by a patron who already has 5 open records fails, inserts no     *)
(* record and leaves available_copies unchanged; its message is the limit  *)
(* message when the book exists and has an available copy.                 *)
C2_PatronLimit ==
    /\ [](\A p \in ValidPatrons : PatronLoans(p) <= 5)
    /\ [][\A p \in ValidPatrons :
            (PatronLoans(p) >= 5 /\ last'.op = "borrow" /\ last'.args[1] = p)
                => /\ Refused
                   /\ (Known(last'.args[2])
                          /\ books[last'.args[2]].available_copies > 0)
                         => last'.msg = MsgLimit]_vars

\* a patron with 5 open records was refused a book that has a copy left
C2_Witness ==
    /\ last.op = "borrow"
    /\ last.msg = MsgLimit
    /\ ~last.ok
    /\ PatronLoans(last.args[1]) = 5
    /\ books[last.args[2]].available_copies > 0

-----------------------------------------------------------------------------
(* C3 as stated. A successful borrow decrements that book's                *)
(* available_copies by exactly 1 and changes no other book; a borrow of a  *)
(* book whose available_copies is 0 fails with the not-available message,  *)
(* inserts no record and leaves available_copies at 0.                     *)
C3_UnavailableAlways ==
    [][last'.op = "borrow" =>
        LET b == last'.args[2]
        IN  /\ last'.ok =>
                /\ Known(b)
                /\ books' = [books EXCEPT ![b].available_copies = @ - 1]
            /\ (Known(b) /\ books[b].available_copies = 0) =>
                /\ Refused
                /\ last'.msg = MsgNotAvailable]_vars

(* C3 as amended. A successful borrow decrements that book's               *)
(* available_copies by exactly 1 and changes no other book; a borrow, by a *)
(* patron whose id is 6 digits, of a book whose available_copies is 0      *)
(* fails with the not-available message, inserts no record and leaves      *)
(* available_copies at 0.                                                  *)
C3_BorrowDecrements ==
    [][last'.op = "borrow" =>
        LET b == last'.args[2]
        IN  /\ last'.ok =>
                /\ Known(b)
                /\ books' = [books EXCEPT ![b].available_copies = @ - 1]
            /\ (Known(b) /\ books[b].available_copies = 0
                    /\ ~MalformedPatron(last'.args[1])) =>
                /\ Refused
                /\ last'.msg = MsgNotAvailable]_vars

\* a borrow of a book with no copy left was refused, another book around
C3_Witness ==
    /\ last.op = "borrow"
    /\ last.msg = MsgNotAvailable
    /\ ~last.ok
    /\ books[last.args[2]].available_copies = 0
    /\ Len(books) = 2

-----------------------------------------------------------------------------
(* C4. In every reachable state there is at most one open borrow record    *)
(* for each (patron_id, book_id) pair.                                     *)
C4_OneOpenRecordPerPair ==
    \A p \in ValidPatrons, b \in BookIds : Loans(p, b) <= 1

-----------------------------------------------------------------------------
(* C5. returnBook called when the patron has no open borrow record for the *)
(* book (never borrowed, unknown book, already returned) returns failure   *)
(* and leaves every borrow record and every available_copies unchanged.    *)
C5_ReturnWithoutLoanRefused ==
    [][(last'.op = "return" /\ Loans(last'.args[1], last'.args[2]) = 0)
            => Refused]_vars

\* a second return of a loan that was already returned was refused
C5_Witness ==
    /\ last.op = "return"
    /\ ~last.ok
    /\ Loans(last.args[1], last.args[2]) = 0
    /\ Returns(last.args[1], last.args[2]) > 0

-----------------------------------------------------------------------------
(* C6. For an open loan d whole days past its due date the Fee Calculator  *)
(* returns fee 0 and days_overdue 0 when d <= 0, and otherwise             *)
(* fee = min(50*min(d,7) + 100*max(d-7,0), 1500) cents with                *)
(* days_overdue = d; d = 1, 7, 8, 100 give 50, 350, 450, 1500; the fee     *)
(* never exceeds 1500 and does not decrease when a day is added.           *)
C6_FeeTariff ==
    (fee_input.found /\ fee_result # NoFeeResult) =>
        LET late == fee_input.current_date - fee_input.due_date
            d == CHOOSE k \in -3..(MaxOverdueDays + 1) :
                    k * 24 <= late /\ late < (k + 1) * 24
            week == 50 * (IF d < 7 THEN d ELSE 7)
            more == 100 * (IF d > 7 THEN d - 7 ELSE 0)
            fee == fee_result.fee_amount
        IN  /\ d <= 0 => fee = 0 /\ fee_result.days_overdue = 0
            /\ d > 0 =>
                /\ fee = (IF week + more < 1500 THEN week + more ELSE 1500)
                /\ fee_result.days_overdue = d
            /\ d = 1 => fee = 50
            /\ d = 7 => fee = 350
            /\ d = 8 => fee = 450
            /\ d = 100 => fee = 1500
            /\ fee <= 1500
            /\ fee <= calculate_late_fee_for_book(
                          TRUE, fee_input.due_date,
                          fee_input.current_date + 24).fee_amount

\* the fee of a loan 100 days late was computed, and is the cap
C6_Witness ==
    /\ fee_input.found
    /\ fee_input.current_date - fee_input.due_date = 100 * 24
    /\ fee_result.days_overdue = 100
    /\ fee_result.fee_amount = 1500

-----------------------------------------------------------------------------
(* C7. addBook with a blank or over-long title or author or an isbn that   *)
(* is not 13 digits, and borrow, returnBook and report with a patron id    *)
(* that is not 6 digits, fail without any storage call and leave the books *)
(* and the borrow records unchanged; the report then has status            *)
(* "Invalid ID" and a zero count.                                          *)
C7_ValidationBeforeStorage ==
    [][/\ (last'.op = "add_book" /\ MalformedAdd(last'.args))
            => (Refused /\ last'.calls = <<>>)
       /\ (last'.op \in {"borrow", "return", "report"}
                /\ MalformedPatron(last'.args[1]))
            => (Refused /\ last'.calls = <<>>)
       /\ (last'.op = "report" /\ MalformedPatron(last'.args[1]))
            => (last'.msg = "Invalid ID" /\ last'.value = 0)]_vars

\* a borrow with a malformed patron id of a book that has a copy left
C7_Witness ==
    /\ last.op = "borrow"
    /\ MalformedPatron(last.args[1])
    /\ Known(last.args[2])
    /\ books[last.args[2]].available_copies > 0
    /\ last.calls = <<>>
    /\ ~last.ok

-----------------------------------------------------------------------------
(* C8. No two books of the catalog share an isbn: addBook with an          *)
(* otherwise valid input whose isbn is that of an existing book fails with *)
(* the already-exists message and leaves the catalog unchanged.            *)
C8_UniqueIsbn ==
    /\ [](\A i, j \in 1..Len(books) :
            i # j => books[i].isbn # books[j].isbn)
    /\ [][(/\ last'.op = "add_book"
           /\ ~MalformedAdd(last'.args)
           /\ last'.args[4] > 0
           /\ \E i \in 1..Len(books) : books[i].isbn = last'.args[3])
            => (Refused /\ last'.msg = MsgExists)]_vars

\* a valid addBook of an isbn already in the catalog was refused
C8_Witness ==
    /\ last.op = "add_book"
    /\ last.msg = MsgExists
    /\ ~last.ok
    /\ \E i \in 1..Len(books) : books[i].isbn = last.args[3]

-----------------------------------------------------------------------------
(* C9. Whenever a storage insert or update issued by addBook, borrow or    *)
(* returnBook reports failure, the operation returns ok = false, issues    *)
(* no call twice, and does not touch the availability after a failed       *)
(* close of the record.                                                    *)
C9_StorageFailureReported ==
    last.op \in {"add_book", "borrow", "return"} =>
        /\ (\E i \in 1..Len(last.calls) : ~last.calls[i].ok) => ~last.ok
        /\ \A i, j \in 1..Len(last.calls) :
              i # j => last.calls[i].call # last.calls[j].call
        /\ \A i \in 1..Len(last.calls) :
              (last.calls[i].call = "update_borrow_record_return_date"
                    /\ ~last.calls[i].ok)
                => i = Len(last.calls)

-----------------------------------------------------------------------------
(* C10. When no storage call fails, for every book                         *)
(* available_copies + (number of open borrow records for the book)         *)
(* = total_copies.                                                         *)
C10_CopiesConserved ==
    \A b \in 1..Len(books) :
        books[b].available_copies + BookLoans(b) = books[b].total_copies

====
